---- MODULE Spec2Model ----
(***************************************************************************)
(* Payment reconciliation core of DairyDrop: the order controller's        *)
(* createPaymentIntent, and the two webhookHandler functions (the one of   *)
(* stripeController.js, mounted on POST /api/stripe/webhook, and the one   *)
(* exported by the order controller), acting on the Order and User         *)
(* collections through Mongoose documents and on the Stripe gateway.       *)
(*                                                                         *)
(* Every await of a handler is a separate step of the worker that runs it, *)
(* so that requests interleave exactly where the event loop lets them.     *)
(* A Mongoose document is a snapshot: save() writes the paths whose        *)
(* assigned value differs from the value that was read, and nothing else.  *)
(***************************************************************************)
EXTENDS Integers, FiniteSets, Sequences, TLC

\* ---------------------------------------------------------------- bounds
NumOrders == 2
NumUsers == 2
NumWorkers == 2
MaxIntents == 2
MaxCustomers == 2
MaxTime == 2
MaxDelivery == 1
MaxRequests == 3
MaxSeqRequests == 4
MaxLowTrustRequests == 3
MaxUnits == 2
ErrScale == 1000

Orders == 1..NumOrders
Users == 1..NumUsers
Workers == 1..NumWorkers

\* 0 stands for null / undefined wherever an id or a date is expected.
Null == 0

\* ------------------------------------------------------------ the schemas
\* paymentStatus enum of the Order schema.
PaymentStatusEnum == {"pending", "paid", "failed"}

\* paymentMethod enum of the Order schema.
PaymentMethodEnum == {"cod"}

\* orderStatus enum of the Order schema.
OrderStatusEnum ==
  {"pending", "confirmed", "packed", "out-for-delivery", "delivered", "cancelled"}

\* Paths the Order schema declares, among those the controllers assign.
OrderSchemaPaths == {"paymentMethod", "paymentStatus", "orderStatus"}

\* The owner of an order (order.user), fixed at creation.
OrderUser(o) == ((o - 1) % NumUsers) + 1

\* A new order: the schema defaults, and a delivery date given by the client.
NewOrder(o, status, date) ==
  [ user |-> OrderUser(o),
    paymentMethod |-> "cod",
    paymentStatus |-> "pending",
    orderStatus |-> status,
    deliveryDate |-> date,
    isPaid |-> FALSE,
    paidAt |-> Null,
    paymentIntentId |-> Null,
    stripeCustomerId |-> Null ]

\* ------------------------------------------------------------ the events
HandledTypes ==
  { "payment_intent.succeeded", "payment_intent.payment_failed",
    "payment_intent.canceled", "charge.refunded" }

EventTypes == HandledTypes \cup {"customer.created"}

\* An event as the handlers read it: its type, the payment intent it is
\* about (event.data.object.id, or charge.payment_intent), and
\* metadata.orderId.
AllEvents == [type : EventTypes, pi : 0..MaxIntents, meta : 0..NumOrders]

NoEvent == [type |-> "none", pi |-> Null, meta |-> Null]

Handlers == {"stripeController", "orderController"}

\* ------------------------------------------------------------- the state
VARIABLES
  orders,        \* the Order collection: order id -> stored document
  users,         \* the User collection: user id -> stored stripeCustomerId
  intents,       \* payment intents at the gateway, in creation order: the
                 \* order in their metadata, their customer, and whether
                 \* their client_secret has been handed to the client
  customers,     \* customers at the gateway, in creation order
  now,           \* the clock read by new Date()
  webhookSecret, \* whether STRIPE_WEBHOOK_SECRET is set
  mounted,       \* the webhookHandler that the webhook route is mounted on
  strictSchema,  \* whether the Order/User models are exactly the declared schemas
  workers,       \* the requests in flight, one per worker
  budget,        \* how many more requests the clients and the gateway send
  amount         \* an amount on its way from order.totalAmount to the
                 \* gateway and back to the payment-status response

vars ==
  << orders, users, intents, customers, now, webhookSecret, mounted,
     strictSchema, workers, budget, amount >>

\* An amount in major units with two decimals: units.cents.
Amounts == [units : 0..MaxUnits, cents : 0..99]

\* No amount is being followed.
NoAmount == [pc |-> "none", total |-> [units |-> 0, cents |-> 0], minor |-> 0,
             shown |-> [units |-> 0, cents |-> 0]]

NoDoc == NewOrder(1, "pending", Null)

Idle ==
  [ pc |-> "idle", op |-> "none", h |-> "none", oid |-> Null, uid |-> Null,
    doc |-> NoDoc, ev |-> NoEvent, redelivery |-> FALSE, cust |-> Null,
    pi |-> Null, resp |-> "none" ]

\* A worker that has sent its response.
Done(wk, resp) == [ Idle EXCEPT !.pc = "done", !.op = wk.op, !.resp = resp ]

\* A worker that takes no request.
Off == [ Idle EXCEPT !.pc = "off" ]

\* The collections and the gateway when the run starts: orders that were
\* created and not yet paid for, at most one of which has left orderStatus
\* 'pending', and no customer or payment intent.
InitStore ==
  /\ \E o \in Orders, s \in OrderStatusEnum :
       orders = [p \in Orders |->
                   NewOrder(p, IF p = o THEN s ELSE "pending", MaxDelivery)]
  /\ users = [u \in Users |-> Null]
  /\ intents = << >>
  /\ customers = << >>
  /\ now = 1
  /\ mounted \in Handlers
  /\ amount = NoAmount

\* Requests served concurrently, a signing secret configured, documents
\* that carry every path the controllers read and assign.
Init ==
  /\ InitStore
  /\ webhookSecret = TRUE
  /\ strictSchema = FALSE
  /\ workers = [w \in Workers |-> Idle]
  /\ budget = MaxRequests

\* The same with requests served one after the other.
InitSeq ==
  /\ InitStore
  /\ webhookSecret = TRUE
  /\ strictSchema = FALSE
  /\ workers = [w \in Workers |-> IF w = 1 THEN Idle ELSE Off]
  /\ budget = MaxSeqRequests

\* Requests served one after the other on models that are exactly the
\* declared schemas: save() drops the undeclared paths and validates the
\* enums.
InitSchema ==
  /\ InitStore
  /\ webhookSecret = TRUE
  /\ strictSchema = TRUE
  /\ workers = [w \in Workers |-> IF w = 1 THEN Idle ELSE Off]
  /\ budget = MaxSeqRequests

\* ------------------------------------------------------- Mongoose save()
\* The value save() leaves in path f of the stored document cur, for a
\* document that was read as doc and then assigned asg: the path is written
\* when its assigned value differs from the value read (and, under the
\* declared schema, when the schema declares the path).
Written(cur, doc, asg, f) ==
  IF /\ f \in DOMAIN asg
     /\ asg[f] # doc[f]
     /\ (strictSchema => f \in OrderSchemaPaths)
  THEN asg[f]
  ELSE cur[f]

\* Whether save() passes the schema's enum validators.
Valid(asg) ==
  strictSchema =>
    /\ ("paymentStatus" \in DOMAIN asg => asg.paymentStatus \in PaymentStatusEnum)
    /\ ("paymentMethod" \in DOMAIN asg => asg.paymentMethod \in PaymentMethodEnum)

\* The stored document after order.save().
SaveOrder(cur, doc, asg) ==
  [ cur EXCEPT
      !.paymentMethod = Written(cur, doc, asg, "paymentMethod"),
      !.paymentStatus = Written(cur, doc, asg, "paymentStatus"),
      !.orderStatus = Written(cur, doc, asg, "orderStatus"),
      !.isPaid = Written(cur, doc, asg, "isPaid"),
      !.paidAt = Written(cur, doc, asg, "paidAt"),
      !.paymentIntentId = Written(cur, doc, asg, "paymentIntentId"),
      !.stripeCustomerId = Written(cur, doc, asg, "stripeCustomerId") ]

\* Order.findOne({ paymentIntentId: id }): the first matching order, or Null.
FindByIntent(id) ==
  LET hits == { o \in Orders : orders[o].paymentIntentId = id }
  IN  IF id = Null \/ hits = {} THEN Null
      ELSE CHOOSE o \in hits : \A p \in hits : o <= p

\* Order.findById(id): the order with that id, or Null.
FindById(id) == IF id \in Orders THEN id ELSE Null

\* ------------------------------------------------- createPaymentIntent
\* The precondition checks without the one on the delivery date.
Precheck_NoDeliveryDateCheck(order, uid) ==
  IF order.user # uid THEN "403"
  ELSE IF order.paymentStatus = "paid" \/ order.isPaid THEN "400 already paid"
  ELSE IF order.orderStatus = "cancelled" THEN "400 cancelled"
  ELSE "ok"

\* The response the precondition checks give for the order that was read,
\* "ok" when all of them pass.
Precheck(order, uid) ==
  IF order.user # uid THEN "403"
  ELSE IF order.paymentStatus = "paid" \/ order.isPaid THEN "400 already paid"
  ELSE IF order.orderStatus = "cancelled" THEN "400 cancelled"
  ELSE IF order.deliveryDate < now THEN "400 delivery date passed"
  ELSE "ok"

\* Order.findById and the checks that follow it without an await.
createPaymentIntent_findOrder(w, o, u) ==
  /\ workers[w].pc = "idle"
  /\ budget > 0
  /\ budget' = budget - 1
  /\ LET wk == [Idle EXCEPT !.op = "createPaymentIntent", !.oid = o, !.uid = u]
     IN  workers' =
           [workers EXCEPT ![w] =
              IF FindById(o) = Null THEN Done(wk, "404")
              ELSE IF Precheck(orders[o], u) # "ok"
                   THEN Done(wk, Precheck(orders[o], u))
              ELSE [wk EXCEPT !.pc = "findUser", !.doc = orders[o]]]
  /\ UNCHANGED << orders, users, intents, customers, now, webhookSecret,
                  mounted, strictSchema,
                  amount >>

\* User.findById, and the cached customer when there is one.
createPaymentIntent_findUser(w) ==
  /\ workers[w].pc = "findUser"
  /\ workers' =
       [workers EXCEPT ![w] =
          IF users[workers[w].uid] # Null
          THEN [@ EXCEPT !.pc = "createIntent", !.cust = users[workers[w].uid]]
          ELSE [@ EXCEPT !.pc = "createCustomer"]]
  /\ UNCHANGED << orders, users, intents, customers, now, webhookSecret,
                  mounted, strictSchema, budget,
                  amount >>

\* stripe.customers.create
createPaymentIntent_createCustomer(w) ==
  /\ workers[w].pc = "createCustomer"
  /\ Len(customers) < MaxCustomers
  /\ customers' = Append(customers, workers[w].uid)
  /\ workers' =
       [workers EXCEPT ![w] = [@ EXCEPT !.pc = "saveUser", !.cust = Len(customers) + 1]]
  /\ UNCHANGED << orders, users, intents, now, webhookSecret, mounted, strictSchema,
                  budget,
                  amount >>

\* user.save() after user.stripeCustomerId = customer.id
createPaymentIntent_saveUser(w) ==
  /\ workers[w].pc = "saveUser"
  /\ users' =
       IF strictSchema THEN users
       ELSE [users EXCEPT ![workers[w].uid] = workers[w].cust]
  /\ workers' = [workers EXCEPT ![w] = [@ EXCEPT !.pc = "createIntent"]]
  /\ UNCHANGED << orders, intents, customers, now, webhookSecret, mounted, strictSchema,
                  budget,
                  amount >>

\* A createIntent step that stores the intent's id on the order as soon as
\* the intent exists, before the save that ends the request.
createPaymentIntent_createIntent_WritesEarly(w) ==
  /\ workers[w].pc = "createIntent"
  /\ Len(intents) < MaxIntents
  /\ intents' = Append(intents, [ order |-> workers[w].oid,
                                  customer |-> workers[w].cust,
                                  released |-> FALSE ])
  /\ orders' = [orders EXCEPT ![workers[w].oid].paymentIntentId = Len(intents) + 1]
  /\ workers' =
       [workers EXCEPT ![w] = [@ EXCEPT !.pc = "saveOrder", !.pi = Len(intents) + 1]]
  /\ UNCHANGED << users, customers, now, webhookSecret, mounted, strictSchema,
                  budget,
                  amount >>

\* A createIntent step that takes the latest payment intent of the gateway
\* when there is one, and creates one only when there is none.
createPaymentIntent_createIntent_Reuse(w) ==
  /\ workers[w].pc = "createIntent"
  /\ intents' =
       IF Len(intents) > 0 THEN intents
       ELSE Append(intents, [ order |-> workers[w].oid,
                              customer |-> workers[w].cust,
                              released |-> FALSE ])
  /\ workers' =
       [workers EXCEPT ![w] = [@ EXCEPT !.pc = "saveOrder", !.pi = Len(intents')]]
  /\ UNCHANGED << orders, users, customers, now, webhookSecret, mounted, strictSchema,
                  budget,
                  amount >>

\* stripe.paymentIntents.create, with metadata.orderId = order._id
createPaymentIntent_createIntent(w) ==
  /\ workers[w].pc = "createIntent"
  /\ Len(intents) < MaxIntents
  /\ intents' = Append(intents, [ order |-> workers[w].oid,
                                  customer |-> workers[w].cust,
                                  released |-> FALSE ])
  /\ workers' =
       [workers EXCEPT ![w] = [@ EXCEPT !.pc = "saveOrder", !.pi = Len(intents) + 1]]
  /\ UNCHANGED << orders, users, customers, now, webhookSecret, mounted, strictSchema,
                  budget,
                  amount >>

\* Assignments that also mark the order as paid when the intent is created.
PaymentIntentAssign_MarksPaid(wk) ==
  [ paymentIntentId |-> wk.pi,
    stripeCustomerId |-> wk.cust,
    paymentStatus |-> "processing",
    paymentMethod |-> "card",
    isPaid |-> TRUE ]

\* What createPaymentIntent assigns to the order document before save().
PaymentIntentAssign(wk) ==
  [ paymentIntentId |-> wk.pi,
    stripeCustomerId |-> wk.cust,
    paymentStatus |-> "processing",
    paymentMethod |-> "card" ]

\* order.save() and the 200 response, which hands the intent's
\* client_secret to the client; a validation error is caught and answered
\* with 500.
createPaymentIntent_saveOrder(w) ==
  /\ workers[w].pc = "saveOrder"
  /\ LET wk == workers[w]
         asg == PaymentIntentAssign(wk)
     IN  IF Valid(asg)
         THEN /\ orders' = [orders EXCEPT ![wk.oid] = SaveOrder(@, wk.doc, asg)]
              /\ intents' = [intents EXCEPT ![wk.pi].released = TRUE]
              /\ workers' = [workers EXCEPT ![w] = Done(wk, "200")]
         ELSE /\ orders' = orders
              /\ intents' = intents
              /\ workers' = [workers EXCEPT ![w] = Done(wk, "500")]
  /\ UNCHANGED << users, customers, now, webhookSecret, mounted, strictSchema,
                  budget,
                  amount >>

\* ------------------------------------------------------------ amounts
\* The double that order.totalAmount * 100 gives, in units of 1/ErrScale of
\* a minor unit: the exact product, off by the error err of binary floating
\* point, which is far below half a minor unit.
Times100(total, err) == (total.units * 100 + total.cents) * ErrScale + err

\* The errors of the floating-point product that are told apart.
FloatErrors == {-1, 0, 1}

\* Math.floor of a value given in units of 1/ErrScale.
MathFloor(v) == v \div ErrScale

\* Math.round of a value given in units of 1/ErrScale: floor(v + 0.5).
MathRound(v) == (v + ErrScale \div 2) \div ErrScale

\* paymentIntent.amount / 100, as the decimal the response shows.
Div100(minor) == [units |-> minor \div 100, cents |-> minor % 100]

\* const amount = Math.round(order.totalAmount * 100), sent to the gateway
\* as the payment intent's amount.
createPaymentIntent_amount(err) ==
  /\ amount.pc = "order"
  /\ amount' = [amount EXCEPT !.pc = "intent",
                              !.minor = MathRound(Times100(amount.total, err))]
  /\ UNCHANGED << orders, users, intents, customers, now, webhookSecret, mounted,
                  strictSchema, workers, budget >>

\* amount: paymentIntent.amount / 100 in the payment-status response.
getPaymentStatus_amount ==
  /\ amount.pc = "intent"
  /\ amount' = [amount EXCEPT !.pc = "shown", !.shown = Div100(amount.minor)]
  /\ UNCHANGED << orders, users, intents, customers, now, webhookSecret, mounted,
                  strictSchema, workers, budget >>

\* ----------------------------------------------------- getPaymentStatus
\* The status a payment intent can have at the gateway when it is retrieved.
IntentStatuses == {"requires_payment_method", "succeeded"}

\* A lookup without the check of the requester.
getPaymentStatus_findOrder_NoAuth(w, o, u, admin) ==
  /\ workers[w].pc = "idle"
  /\ budget > 0
  /\ budget' = budget - 1
  /\ LET wk == [Idle EXCEPT !.op = "getPaymentStatus"]
     IN  workers' =
           [workers EXCEPT ![w] =
              IF FindById(o) = Null THEN Done(wk, "404")
              ELSE IF orders[o].paymentIntentId = Null THEN Done(wk, "200 local")
              ELSE [wk EXCEPT !.pc = "retrieve", !.oid = o,
                              !.pi = orders[o].paymentIntentId]]
  /\ UNCHANGED << orders, users, intents, customers, now, webhookSecret,
                  mounted, strictSchema,
                  amount >>

\* Order.findById and the checks that follow it without an await: the
\* requester must own the order or be an administrator; an order without
\* paymentIntentId is answered from the stored document.
getPaymentStatus_findOrder(w, o, u, admin) ==
  /\ workers[w].pc = "idle"
  /\ budget > 0
  /\ budget' = budget - 1
  /\ LET wk == [Idle EXCEPT !.op = "getPaymentStatus"]
     IN  workers' =
           [workers EXCEPT ![w] =
              IF FindById(o) = Null THEN Done(wk, "404")
              ELSE IF orders[o].user # u /\ ~admin THEN Done(wk, "403")
              ELSE IF orders[o].paymentIntentId = Null THEN Done(wk, "200 local")
              ELSE [wk EXCEPT !.pc = "retrieve", !.oid = o,
                              !.pi = orders[o].paymentIntentId]]
  /\ UNCHANGED << orders, users, intents, customers, now, webhookSecret,
                  mounted, strictSchema,
                  amount >>

\* A retrieve that stores the status it found at the gateway on the order.
getPaymentStatus_retrieve_Sync(w, live) ==
  /\ workers[w].pc = "retrieve"
  /\ orders' =
       [orders EXCEPT ![workers[w].oid].paymentStatus =
          IF live = "succeeded" THEN "paid" ELSE @]
  /\ workers' = [workers EXCEPT ![w] = Done(workers[w], "200 " \o live)]
  /\ UNCHANGED << users, intents, customers, now, webhookSecret, mounted,
                  strictSchema, budget,
                  amount >>

\* stripe.paymentIntents.retrieve and the response, which reports the
\* intent's status at the gateway next to the stored one.
getPaymentStatus_retrieve(w, live) ==
  /\ workers[w].pc = "retrieve"
  /\ workers' = [workers EXCEPT ![w] = Done(workers[w], "200 " \o live)]
  /\ UNCHANGED << orders, users, intents, customers, now, webhookSecret,
                  mounted, strictSchema, budget,
                  amount >>

\* ------------------------------------------------------- webhookHandler
\* The events the gateway signs: those about a payment intent it holds,
\* carrying that intent's metadata, and events of other kinds. An intent can
\* be canceled as soon as it exists; it is paid for, fails or is refunded
\* only once the client has its client_secret.
StripeEvents ==
  { e \in AllEvents :
      IF e.type = "customer.created" THEN e.pi = Null /\ e.meta = Null
      ELSE /\ e.pi \in 1..Len(intents)
           /\ e.meta = intents[e.pi].order
           /\ e.type # "payment_intent.canceled" => intents[e.pi].released }

\* The cases of each handler's switch (event.type).
Cases(h) ==
  IF h = "stripeController"
  THEN { "payment_intent.succeeded", "payment_intent.payment_failed",
         "payment_intent.canceled" }
  ELSE { "payment_intent.succeeded", "payment_intent.payment_failed",
         "payment_intent.canceled", "charge.refunded" }

\* Whether the handler looks the order up by metadata.orderId before it
\* looks it up by paymentIntentId.
MetadataFirst(h, type) ==
  h = "stripeController" /\ type = "payment_intent.succeeded"

\* No case falls back to metadata.orderId.
UsesMetadata_Never(h, type) == FALSE

\* Whether the handler's case falls back to metadata.orderId at all.
UsesMetadata(h, type) == type # "charge.refunded"

\* Assignments in which a canceled payment intent also cancels the order.
EventAssign_CancelsOrder(h, ev) ==
  CASE ev.type = "payment_intent.succeeded" /\ h = "stripeController" ->
         [ isPaid |-> TRUE, paidAt |-> now, paymentStatus |-> "paid",
           paymentIntentId |-> ev.pi, orderStatus |-> "confirmed" ]
    [] ev.type = "payment_intent.succeeded" /\ h = "orderController" ->
         [ isPaid |-> TRUE, paidAt |-> now, paymentStatus |-> "paid",
           orderStatus |-> "confirmed" ]
    [] ev.type = "payment_intent.payment_failed" /\ h = "stripeController" ->
         [ isPaid |-> FALSE, paymentStatus |-> "failed" ]
    [] ev.type = "payment_intent.payment_failed" /\ h = "orderController" ->
         [ paymentStatus |-> "failed", paymentMethod |-> "card" ]
    [] ev.type = "payment_intent.canceled" ->
         [ paymentStatus |-> "failed", orderStatus |-> "cancelled" ]
    [] OTHER ->
         [ paymentStatus |-> "refunded" ]

\* What each case assigns to the order document before save().
EventAssign(h, ev) ==
  CASE ev.type = "payment_intent.succeeded" /\ h = "stripeController" ->
         [ isPaid |-> TRUE, paidAt |-> now, paymentStatus |-> "paid",
           paymentIntentId |-> ev.pi, orderStatus |-> "confirmed" ]
    [] ev.type = "payment_intent.succeeded" /\ h = "orderController" ->
         [ isPaid |-> TRUE, paidAt |-> now, paymentStatus |-> "paid",
           orderStatus |-> "confirmed" ]
    [] ev.type = "payment_intent.payment_failed" /\ h = "stripeController" ->
         [ isPaid |-> FALSE, paymentStatus |-> "failed" ]
    [] ev.type = "payment_intent.payment_failed" /\ h = "orderController" ->
         [ paymentStatus |-> "failed", paymentMethod |-> "card" ]
    [] ev.type = "payment_intent.canceled" ->
         [ paymentStatus |-> "failed" ]
    [] OTHER ->
         [ paymentStatus |-> "refunded" ]

\* A handler path that returns without sending a response.
Ack_NoResponse(wk) == [wk EXCEPT !.pc = "hung"]

\* res.json({ received: true }): the acknowledged event stays known to the
\* gateway, which may deliver it again.
Ack(wk) == [ Done(wk, "200") EXCEPT !.h = wk.h, !.ev = wk.ev ]

\* A switch without a default: an event of any type goes on to the lookups.
Dispatch_FallThrough(wk) == [wk EXCEPT !.pc = "find1"]

\* The switch on event.type: an event of no case is acknowledged at once.
Dispatch(wk) ==
  IF wk.ev.type \in Cases(wk.h) THEN [wk EXCEPT !.pc = "find1"] ELSE Ack(wk)

\* A verification that answers 400 to every payload the gateway did not
\* sign, whether or not a signing secret is configured.
webhookHandler_verify_RequiresSignature(w, ev, signed) ==
  /\ workers[w].pc = "idle"
  /\ budget > 0
  /\ budget' = budget - 1
  /\ signed => ev \in StripeEvents
  /\ LET wk == [Idle EXCEPT !.op = "webhookHandler", !.h = mounted, !.ev = ev]
     IN  workers' =
           [workers EXCEPT ![w] = IF ~signed THEN Done(wk, "400") ELSE Dispatch(wk)]
  /\ UNCHANGED << orders, users, intents, customers, now, webhookSecret,
                  mounted, strictSchema, amount >>

\* A verification whose failure is not answered: the payload is taken as the
\* event whether or not the gateway signed it.
webhookHandler_verify_NoReject(w, ev, signed) ==
  /\ workers[w].pc = "idle"
  /\ budget > 0
  /\ budget' = budget - 1
  /\ signed => ev \in StripeEvents
  /\ workers' =
       [workers EXCEPT ![w] =
          Dispatch([Idle EXCEPT !.op = "webhookHandler", !.h = mounted, !.ev = ev])]
  /\ UNCHANGED << orders, users, intents, customers, now, webhookSecret,
                  mounted, strictSchema,
                  amount >>

\* Signature verification and the switch on event.type. With a signing
\* secret, constructEvent throws on a payload the gateway did not sign and
\* the handler answers 400; without one the body is taken as the event.
webhookHandler_verify(w, ev, signed) ==
  /\ workers[w].pc = "idle"
  /\ budget > 0
  /\ budget' = budget - 1
  /\ signed => ev \in StripeEvents
  /\ LET wk == [Idle EXCEPT !.op = "webhookHandler", !.h = mounted, !.ev = ev]
     IN  workers' =
           [workers EXCEPT ![w] =
              IF webhookSecret /\ ~signed THEN Done(wk, "400") ELSE Dispatch(wk)]
  /\ UNCHANGED << orders, users, intents, customers, now, webhookSecret,
                  mounted, strictSchema,
                  amount >>

\* The gateway delivers once more, to the same handler, the event that this
\* worker has acknowledged; the copy passes verification as the first did.
webhookHandler_redelivery(w) ==
  /\ workers[w].pc = "done"
  /\ workers[w].op = "webhookHandler"
  /\ workers[w].resp = "200"
  /\ budget > 0
  /\ budget' = budget - 1
  /\ workers' =
       [workers EXCEPT ![w] =
          Dispatch([Idle EXCEPT !.op = "webhookHandler", !.h = workers[w].h,
                                !.ev = workers[w].ev, !.redelivery = TRUE])]
  /\ UNCHANGED << orders, users, intents, customers, now, webhookSecret,
                  mounted, strictSchema,
                  amount >>

\* The worker after a lookup that gave order o (Null when none was found):
\* it goes on to save, to the second lookup, or acknowledges.
AfterLookup(wk, o, more) ==
  IF o # Null THEN [wk EXCEPT !.pc = "save", !.oid = o, !.doc = orders[o]]
  ELSE IF more THEN [wk EXCEPT !.pc = "find2"]
  ELSE Ack(wk)

\* The first lookup of a case.
webhookHandler_find1(w) ==
  /\ workers[w].pc = "find1"
  /\ LET wk == workers[w]
         ev == wk.ev
     IN  workers' =
           [workers EXCEPT ![w] =
              IF MetadataFirst(wk.h, ev.type)
              THEN AfterLookup(wk, IF ev.meta # Null THEN FindById(ev.meta) ELSE Null,
                               TRUE)
              ELSE AfterLookup(wk, FindByIntent(ev.pi),
                               UsesMetadata(wk.h, ev.type) /\ ev.meta # Null)]
  /\ UNCHANGED << orders, users, intents, customers, now, webhookSecret,
                  mounted, strictSchema, budget,
                  amount >>

\* The second lookup of a case, made when the first one found no order.
webhookHandler_find2(w) ==
  /\ workers[w].pc = "find2"
  /\ LET wk == workers[w]
         ev == wk.ev
     IN  workers' =
           [workers EXCEPT ![w] =
              IF MetadataFirst(wk.h, ev.type)
              THEN AfterLookup(wk, FindByIntent(ev.pi), FALSE)
              ELSE AfterLookup(wk, FindById(ev.meta), FALSE)]
  /\ UNCHANGED << orders, users, intents, customers, now, webhookSecret,
                  mounted, strictSchema, budget,
                  amount >>

\* The assignments of the case, order.save() and the acknowledgement; a
\* validation error is caught and answered with 500.
webhookHandler_save(w) ==
  /\ workers[w].pc = "save"
  /\ LET wk == workers[w]
         asg == EventAssign(wk.h, wk.ev)
     IN  IF Valid(asg)
         THEN /\ orders' = [orders EXCEPT ![wk.oid] = SaveOrder(@, wk.doc, asg)]
              /\ workers' = [workers EXCEPT ![w] = Ack(wk)]
         ELSE /\ orders' = orders
              /\ workers' = [workers EXCEPT ![w] = Done(wk, "500")]
  /\ UNCHANGED << users, intents, customers, now, webhookSecret, mounted, strictSchema,
                  budget,
                  amount >>

\* ------------------------------------------------------------ environment
\* An awaited store or gateway call rejects: the handler's catch answers 500.
Throw(w) ==
  /\ workers[w].pc \in { "findUser", "createCustomer", "saveUser", "createIntent",
                        "saveOrder", "retrieve", "find1", "find2", "save" }
  /\ workers' = [workers EXCEPT ![w] = Done(workers[w], "500")]
  /\ UNCHANGED << orders, users, intents, customers, now, webhookSecret,
                  mounted, strictSchema, budget,
                  amount >>

\* The response has been sent; the worker takes the next request.
Respond(w) ==
  /\ workers[w].pc = "done"
  /\ workers' = [workers EXCEPT ![w] = Idle]
  /\ UNCHANGED << orders, users, intents, customers, now, webhookSecret,
                  mounted, strictSchema, budget,
                  amount >>

\* Time passes.
Tick ==
  /\ now < MaxTime
  /\ now' = now + 1
  /\ UNCHANGED << orders, users, intents, customers, webhookSecret, mounted, strictSchema,
                  workers, budget,
                  amount >>

Next ==
  \/ \E w \in Workers, o \in 0..NumOrders, u \in Users :
       createPaymentIntent_findOrder(w, o, u)
  \/ \E w \in Workers : createPaymentIntent_findUser(w)
  \/ \E w \in Workers : createPaymentIntent_createCustomer(w)
  \/ \E w \in Workers : createPaymentIntent_saveUser(w)
  \/ \E w \in Workers : createPaymentIntent_createIntent(w)
  \/ \E w \in Workers : createPaymentIntent_saveOrder(w)
  \/ \E w \in Workers, o \in 0..NumOrders, u \in Users, admin \in BOOLEAN :
       getPaymentStatus_findOrder(w, o, u, admin)
  \/ \E w \in Workers, live \in IntentStatuses : getPaymentStatus_retrieve(w, live)
  \/ \E w \in Workers, ev \in AllEvents, signed \in BOOLEAN :
       webhookHandler_verify(w, ev, signed)
  \/ \E w \in Workers : webhookHandler_redelivery(w)
  \/ \E w \in Workers : webhookHandler_find1(w)
  \/ \E w \in Workers : webhookHandler_find2(w)
  \/ \E w \in Workers : webhookHandler_save(w)
  \/ \E w \in Workers : Throw(w)
  \/ \E w \in Workers : Respond(w)
  \/ Tick

Spec == Init /\ [][Next]_vars

SpecSeq == InitSeq /\ [][Next]_vars

\* The steps that can be taken on the declared schemas: no order ever has a
\* stored paymentIntentId there, so that getPaymentStatus answers from the
\* stored document and never asks the gateway.
NextSchema ==
  \/ \E w \in Workers, o \in 0..NumOrders, u \in Users :
       createPaymentIntent_findOrder(w, o, u)
  \/ \E w \in Workers : createPaymentIntent_findUser(w)
  \/ \E w \in Workers : createPaymentIntent_createCustomer(w)
  \/ \E w \in Workers : createPaymentIntent_saveUser(w)
  \/ \E w \in Workers : createPaymentIntent_createIntent(w)
  \/ \E w \in Workers : createPaymentIntent_saveOrder(w)
  \/ \E w \in Workers, o \in 0..NumOrders, u \in Users, admin \in BOOLEAN :
       getPaymentStatus_findOrder(w, o, u, admin)
  \/ \E w \in Workers, ev \in AllEvents, signed \in BOOLEAN :
       webhookHandler_verify(w, ev, signed)
  \/ \E w \in Workers : webhookHandler_redelivery(w)
  \/ \E w \in Workers : webhookHandler_find1(w)
  \/ \E w \in Workers : webhookHandler_find2(w)
  \/ \E w \in Workers : webhookHandler_save(w)
  \/ \E w \in Workers : Throw(w)
  \/ \E w \in Workers : Respond(w)
  \/ Tick

SpecSchema == InitSchema /\ [][NextSchema]_vars

\* Requests served one after the other by the handler the webhook route is
\* mounted on, with no signing secret configured: every payload posted to the
\* route is taken as an event.
InitLowTrust ==
  /\ InitStore
  /\ mounted = "stripeController"
  /\ webhookSecret = FALSE
  /\ strictSchema = FALSE
  /\ workers = [w \in Workers |-> IF w = 1 THEN Idle ELSE Off]
  /\ budget = MaxLowTrustRequests

SpecLowTrust == InitLowTrust /\ [][Next]_vars

\* Requests served one after the other, where a handler that is at an await
\* goes on in the end: the store or the gateway answers, or the call
\* rejects (Throw), and the event loop resumes the handler.
SpecLive ==
  /\ InitSeq
  /\ [][Next]_vars
  /\ \A w \in Workers :
       WF_vars(webhookHandler_find1(w) \/ webhookHandler_find2(w)
                 \/ webhookHandler_save(w))

\* One order's totalAmount, any amount with two decimals, followed through
\* the two conversions; no request is served.
InitAmount ==
  /\ orders = [p \in Orders |-> NewOrder(p, "pending", MaxDelivery)]
  /\ users = [u \in Users |-> Null]
  /\ intents = << >>
  /\ customers = << >>
  /\ now = 1
  /\ mounted = "stripeController"
  /\ webhookSecret = TRUE
  /\ strictSchema = FALSE
  /\ workers = [w \in Workers |-> Off]
  /\ budget = 0
  /\ \E t \in Amounts : amount = [NoAmount EXCEPT !.pc = "order", !.total = t]

NextAmount ==
  \/ \E err \in FloatErrors : createPaymentIntent_amount(err)
  \/ getPaymentStatus_amount

SpecAmount == InitAmount /\ [][NextAmount]_vars

\* ---------------------------------------------------------------- claims
\* Worker w takes the step that ends its request.
Finishes(w) == workers[w].pc \notin {"idle", "off", "done"} /\ workers'[w].pc = "done"

\* Worker w takes the save() step of the webhook handler for an event of
\* one of the given types.
SavesEvent(w, types) ==
  /\ workers[w].pc = "save"
  /\ workers[w].ev.type \in types
  /\ Finishes(w)

\* C1. Once an order's paymentStatus is 'paid', the handling of a
\* payment_failed or canceled event that resolves to it leaves its
\* paymentStatus 'paid'.
C1_PaidIsMonotone ==
  [][ \A w \in Workers :
        ( /\ SavesEvent(w, {"payment_intent.payment_failed", "payment_intent.canceled"})
          /\ orders[workers[w].oid].paymentStatus = "paid" )
        => orders'[workers[w].oid].paymentStatus = "paid" ]_vars

\* C2. Handling again an event that has already been handled and
\* acknowledged changes no order.
C2_RedeliveryIsNoOp ==
  [][ \A w \in Workers :
        (workers[w].redelivery /\ workers'[w] # workers[w]) => orders' = orders ]_vars

\* C3. In every state, isPaid is true exactly for the orders whose
\* paymentStatus is 'paid'.
C3_IsPaidIffPaid ==
  \A o \in Orders : orders[o].isPaid <=> (orders[o].paymentStatus = "paid")

\* C4. The save() of createPaymentIntent is conditional on the paymentStatus
\* it read: a createPaymentIntent that read the order before it became 'paid'
\* does not turn 'paid' into 'processing'.
C4_NoLostUpdate ==
  [][ \A w \in Workers :
        ( /\ workers[w].pc = "saveOrder"
          /\ Finishes(w)
          /\ workers[w].doc.paymentStatus # "paid"
          /\ orders[workers[w].oid].paymentStatus = "paid" )
        => orders'[workers[w].oid].paymentStatus = "paid" ]_vars

\* C5. A succeeded event makes the order paid (paymentStatus, isPaid,
\* paidAt) when its paymentStatus is 'processing' or 'pending', and changes
\* nothing on an order in any other paymentStatus.
C5_SucceededOnlyFromProcessingOrPending ==
  [][ \A w \in Workers :
        SavesEvent(w, {"payment_intent.succeeded"}) /\ workers'[w].resp = "200" =>
          LET o == workers[w].oid
          IN  IF orders[o].paymentStatus \in {"processing", "pending"}
              THEN /\ orders'[o].paymentStatus = "paid"
                   /\ orders'[o].isPaid
                   /\ orders'[o].paidAt = now
              ELSE orders'[o] = orders[o] ]_vars

\* C6. A succeeded event changes orderStatus only from 'pending', and then
\* to 'confirmed'.
C6_ConfirmedOnlyFromPending ==
  [][ \A w \in Workers :
        SavesEvent(w, {"payment_intent.succeeded"}) =>
          LET o == workers[w].oid
          IN  orders'[o].orderStatus # orders[o].orderStatus =>
                /\ orders[o].orderStatus = "pending"
                /\ orders'[o].orderStatus = "confirmed" ]_vars

\* C7. No step changes the paymentStatus of an order whose paymentStatus is
\* 'refunded' or whose orderStatus is 'cancelled'.
C7_TerminalStates ==
  [][ \A o \in Orders :
        (orders[o].paymentStatus = "refunded" \/ orders[o].orderStatus = "cancelled")
        => orders'[o].paymentStatus = orders[o].paymentStatus ]_vars

\* C8. A payment_failed or canceled event changes nothing on an order whose
\* paymentStatus is not 'processing', and makes a 'processing' order 'failed'.
C8_FailedOnlyFromProcessing ==
  [][ \A w \in Workers :
        ( /\ SavesEvent(w, {"payment_intent.payment_failed", "payment_intent.canceled"})
          /\ workers'[w].resp = "200" ) =>
          LET o == workers[w].oid
          IN  IF orders[o].paymentStatus = "processing"
              THEN orders'[o].paymentStatus = "failed"
              ELSE orders'[o] = orders[o] ]_vars

\* C9. When the handler of stripeController.js acknowledges a
\* charge.refunded event whose payment intent is that of a 'paid' order, the
\* order's paymentStatus has become 'refunded'.
C9_RefundedFromPaid ==
  [][ \A w \in Workers :
        ( /\ workers[w].pc # "done"
          /\ workers'[w].pc = "done"
          /\ workers'[w].resp = "200"
          /\ workers'[w].h = "stripeController"
          /\ workers'[w].ev.type = "charge.refunded"
          /\ FindByIntent(workers'[w].ev.pi) # Null
          /\ orders[FindByIntent(workers'[w].ev.pi)].paymentStatus = "paid" )
        => orders'[FindByIntent(workers'[w].ev.pi)].paymentStatus = "refunded" ]_vars

\* C10. A charge.refunded event that resolves to an order whose
\* paymentStatus is not 'paid' leaves that paymentStatus as it is.
C10_RefundedIgnoredUnlessPaid ==
  [][ \A w \in Workers :
        ( /\ SavesEvent(w, {"charge.refunded"})
          /\ orders[workers[w].oid].paymentStatus # "paid" )
        => orders'[workers[w].oid].paymentStatus = orders[workers[w].oid].paymentStatus ]_vars

\* The preconditions of createPaymentIntent as the design states them, for
\* order id o and requester u, against the stored orders.
Eligible(o, u) ==
  /\ o \in Orders
  /\ orders[o].user = u
  /\ orders[o].paymentStatus # "paid"
  /\ orders[o].orderStatus # "cancelled"
  /\ orders[o].deliveryDate >= now

\* The responses that reject a createPaymentIntent.
Rejections ==
  {"404", "403", "400 already paid", "400 cancelled", "400 delivery date passed"}

\* Worker w takes up a createPaymentIntent request.
StartsPayment(w) ==
  workers[w].pc = "idle" /\ workers'[w].op = "createPaymentIntent"

\* C11. A createPaymentIntent goes past its checks only when every
\* precondition holds (the order exists, the requester owns it, it is not
\* paid, not cancelled, its delivery date has not passed); otherwise it is
\* rejected at once, and the step that rejects it creates no payment intent
\* and no customer and changes no order and no user.
C11_RejectionHasNoEffect ==
  [][ \A w \in Workers :
        StartsPayment(w) =>
          /\ workers'[w].pc # "done" => Eligible(workers'[w].oid, workers'[w].uid)
          /\ workers'[w].pc = "done" =>
                /\ workers'[w].resp \in Rejections
                /\ UNCHANGED << orders, users, intents, customers >> ]_vars

\* A createPaymentIntent has been rejected for a passed delivery date, at a
\* time when the gateway already holds a customer and a payment intent.
C11_Witness ==
  \E w \in Workers :
    /\ workers[w].pc = "done"
    /\ workers[w].op = "createPaymentIntent"
    /\ workers[w].resp = "400 delivery date passed"
    /\ Len(intents) > 0
    /\ Len(customers) > 0

\* The rejection the design's ordered preconditions give for order id o and
\* requester u, "ok" when all of them hold: existence and ownership, then
\* paymentStatus 'paid', then orderStatus 'cancelled', then the delivery date.
FirstFailing(o, u) ==
  IF o \notin Orders THEN "404"
  ELSE IF orders[o].user # u THEN "403"
  ELSE IF orders[o].paymentStatus = "paid" THEN "400 already paid"
  ELSE IF orders[o].orderStatus = "cancelled" THEN "400 cancelled"
  ELSE IF orders[o].deliveryDate < now THEN "400 delivery date passed"
  ELSE "ok"

\* C12. A createPaymentIntent is rejected with the response of the first
\* precondition that fails, in the order existence, ownership, already paid,
\* cancelled, delivery date passed: no request (o, u) has a rejection other
\* than that one.
C12_FirstFailingIsReported ==
  [][ \A w \in Workers, o \in 0..NumOrders, u \in Users :
        createPaymentIntent_findOrder(w, o, u) /\ workers'[w].pc = "done"
          => workers'[w].resp = FirstFailing(o, u) ]_vars

\* C13. A createPaymentIntent that answers 200 has created a payment intent
\* that no order referred to, and its save leaves the order with that
\* intent's id as paymentIntentId and with paymentStatus 'processing'; the
\* intent the order referred to before is referred to by no order.
C13_FreshAuthorization ==
  [][ \A w \in Workers :
        ( /\ workers[w].pc = "saveOrder"
          /\ workers'[w].pc = "done"
          /\ workers'[w].resp = "200" ) =>
          LET o == workers[w].oid
              pi == workers[w].pi
          IN  /\ \A p \in Orders : orders[p].paymentIntentId # pi
              /\ orders'[o].paymentIntentId = pi
              /\ orders'[o].paymentStatus = "processing"
              /\ orders[o].paymentIntentId # Null =>
                    \A p \in Orders : orders'[p].paymentIntentId # orders[o].paymentIntentId ]_vars

\* C14. On the Order model as declared: the save of a createPaymentIntent
\* on a pending order is answered 200 and stores paymentStatus 'processing';
\* the first handling of a succeeded event for that order stores
\* paymentStatus 'paid' and orderStatus 'confirmed'; the handling of a
\* redelivered copy of it changes no order.
C14_ScenarioOnDeclaredSchema ==
  [][ \A w \in Workers :
        /\ ( createPaymentIntent_saveOrder(w) /\ workers[w].doc.paymentStatus = "pending" )
             => /\ workers'[w].resp = "200"
                /\ orders'[workers[w].oid].paymentStatus = "processing"
        /\ ( /\ webhookHandler_save(w)
             /\ workers[w].ev.type = "payment_intent.succeeded"
             /\ ~workers[w].redelivery
             /\ orders[workers[w].oid].paymentStatus = "processing" )
             => /\ orders'[workers[w].oid].paymentStatus = "paid"
                /\ orders'[workers[w].oid].orderStatus = "confirmed"
        /\ ( /\ webhookHandler_save(w)
             /\ workers[w].ev.type = "payment_intent.succeeded"
             /\ workers[w].redelivery )
             => orders' = orders ]_vars

C16_FallbackResolution ==
  [][ \A w \in Workers :
        ( /\ workers[w].pc \in {"find1", "find2"}
          /\ workers[w].ev.type \in Cases(workers[w].h)
          /\ workers'[w].pc = "done"
          /\ workers'[w].resp = "200" )
        => FindById(workers[w].ev.meta) = Null ]_vars

\* Worker w takes up a webhook delivery.
StartsWebhook(w) ==
  workers[w].pc = "idle" /\ workers'[w].op = "webhookHandler"

\* C17. With a signing secret configured, a delivery goes past verification
\* only with an event the gateway signed; a delivery that fails verification
\* is answered 400 in the same step, which reads and changes no order.
C17_BadSignatureRejected ==
  [][ \A w \in Workers :
        (StartsWebhook(w) /\ webhookSecret) =>
          /\ orders' = orders
          /\ workers'[w].resp # "400" => workers'[w].ev \in StripeEvents
          /\ workers'[w].resp = "400" =>
                /\ workers'[w].pc = "done"
                /\ workers'[w].oid = Null
                /\ workers'[w].doc = NoDoc ]_vars

\* A delivery has been answered 400 while an order was waiting for the
\* events of its payment intent.
C17_Witness ==
  /\ webhookSecret
  /\ \E w \in Workers :
        /\ workers[w].pc = "done"
        /\ workers[w].op = "webhookHandler"
        /\ workers[w].resp = "400"
  /\ \E o \in Orders :
        orders[o].paymentStatus = "processing" /\ orders[o].paymentIntentId # Null

\* C18. A delivery that has passed verification is answered 200, however
\* its handling ends: no order found, nothing to do, or a store call that
\* fails.
C18_AlwaysAcknowledged ==
  [][ \A w \in Workers :
        ( /\ workers[w].op = "webhookHandler"
          /\ workers[w].pc \in {"find1", "find2", "save"}
          /\ workers'[w].pc = "done" )
        => workers'[w].resp = "200" ]_vars

\* C19. When two workers handle copies of the same event at the same time,
\* its effect is applied once: the save of the copy that comes second, made
\* from a document read before the first copy's save, changes no order.
C19_ConcurrentDuplicates ==
  [][ \A w, v \in Workers :
        ( /\ w # v
          /\ SavesEvent(w, HandledTypes)
          /\ ~workers[w].redelivery
          /\ workers[v].pc = "done"
          /\ workers[v].resp = "200"
          /\ workers[v].ev = workers[w].ev
          /\ workers[w].doc # orders[workers[w].oid] )
        => orders' = orders ]_vars

\* C20. An event that resolved to no order is recorded as processed: a
\* redelivered copy of it is recognised as a duplicate, so that no handling
\* of a redelivered copy ends its lookups without an order.
C20_UnresolvedIsRecorded ==
  [][ \A w \in Workers :
        ~ ( /\ workers[w].redelivery
            /\ workers[w].pc \in {"find1", "find2"}
            /\ workers'[w].pc = "done"
            /\ workers'[w].resp = "200" ) ]_vars

\* C21. No step of a getPaymentStatus request changes an order or a user,
\* whatever status the gateway reports for the payment intent.
C21_StatusIsReadOnly ==
  [][ \A w \in Workers :
        ( /\ workers'[w] # workers[w]
          /\ (workers[w].op = "getPaymentStatus" \/ workers'[w].op = "getPaymentStatus") )
        => (orders' = orders /\ users' = users) ]_vars

\* A getPaymentStatus has reported an intent that succeeded at the gateway
\* while no stored order is 'paid'.
C21_Witness ==
  /\ \E w \in Workers :
        /\ workers[w].pc = "done"
        /\ workers[w].op = "getPaymentStatus"
        /\ workers[w].resp = "200 succeeded"
  /\ \A o \in Orders : orders[o].paymentStatus # "paid"

\* C22. A getPaymentStatus by a requester who neither owns the order nor is
\* an administrator is answered 403 at once; the gateway is asked only for
\* the owner or an administrator and only when the order has a
\* paymentIntentId; without one the stored status is returned at once.
C22_StatusOnlyForOwnerOrAdmin ==
  [][ \A w \in Workers, o \in Orders, u \in Users, admin \in BOOLEAN :
        getPaymentStatus_findOrder(w, o, u, admin) =>
          /\ (orders[o].user # u /\ ~admin) =>
                (workers'[w].pc = "done" /\ workers'[w].resp = "403")
          /\ ((orders[o].user = u \/ admin) /\ orders[o].paymentIntentId = Null) =>
                (workers'[w].pc = "done" /\ workers'[w].resp = "200 local")
          /\ workers'[w].pc = "retrieve" =>
                /\ orders[o].user = u \/ admin
                /\ orders[o].paymentIntentId # Null ]_vars

\* A getPaymentStatus has been answered 403 for an order that has a payment
\* intent.
C22_Witness ==
  /\ \E w \in Workers :
        /\ workers[w].pc = "done"
        /\ workers[w].op = "getPaymentStatus"
        /\ workers[w].resp = "403"
  /\ \A o \in Orders : orders[o].paymentIntentId # Null

\* C23. isPaid becomes true, and paidAt changes, only in the save of a
\* succeeded event on that order: never in a step of createPaymentIntent or
\* getPaymentStatus, nor in the save of another event.
C23_IsPaidOnlyBySucceeded ==
  [][ \A o \in Orders :
        ( \/ (~orders[o].isPaid /\ orders'[o].isPaid)
          \/ orders'[o].paidAt # orders[o].paidAt )
        => \E w \in Workers :
             /\ SavesEvent(w, {"payment_intent.succeeded"})
             /\ workers[w].oid = o ]_vars

\* An order has been marked paid, and a later createPaymentIntent or event
\* of another type has been saved on it.
C23_Witness ==
  \E o \in Orders :
    /\ orders[o].isPaid
    /\ orders[o].paidAt # Null
    /\ orders[o].paymentStatus # "paid"

\* C24. An order's paymentIntentId, once set, is replaced only by the save of
\* a createPaymentIntent made while the order's paymentStatus is 'failed'.
C24_IntentReplacedOnlyAfterFailure ==
  [][ \A o \in Orders :
        ( /\ orders[o].paymentIntentId # Null
          /\ orders'[o].paymentIntentId # orders[o].paymentIntentId )
        => /\ orders[o].paymentStatus = "failed"
           /\ \E w \in Workers :
                /\ workers[w].pc = "saveOrder"
                /\ workers[w].oid = o
                /\ workers[w].doc.paymentStatus = "failed" ]_vars

\* C25. A createPaymentIntent for a user with a stored stripeCustomerId
\* creates no customer and uses the stored one; the save of a user after a
\* customer was created leaves that customer's id as the user's
\* stripeCustomerId; every payment intent is created with a customer that
\* was created for the requesting user.
C25_CustomerCache ==
  [][ \A w \in Workers :
        /\ ( createPaymentIntent_findUser(w) /\ users[workers[w].uid] # Null )
             => /\ workers'[w].pc = "createIntent"
                /\ workers'[w].cust = users[workers[w].uid]
        /\ createPaymentIntent_saveUser(w)
             => /\ users'[workers[w].uid] = workers[w].cust
                /\ customers[workers[w].cust] = workers[w].uid
        /\ createPaymentIntent_createIntent(w)
             => customers[workers[w].cust] = workers[w].uid ]_vars

C27_AmountRoundTrip ==
  /\ amount.pc \in {"intent", "shown"} =>
       amount.minor = amount.total.units * 100 + amount.total.cents
  /\ amount.pc = "shown" => amount.shown = amount.total

\* The amount 1.99 has gone to the gateway and come back.
C27_Witness ==
  /\ amount.pc = "shown"
  /\ amount.total = [units |-> 1, cents |-> 99]
  /\ amount.minor = 199

\* The values the spec gives paymentStatus.
FiveStatuses == {"pending", "processing", "paid", "failed", "refunded"}

\* C28. The stored paymentStatus of every order is one of pending,
\* processing, paid, failed, refunded, and the Order model stores each of
\* them: a save that assigns one of these values is accepted and leaves it
\* stored.
C28_FiveStatusesStorable ==
  [][ /\ \A o \in Orders : orders'[o].paymentStatus \in FiveStatuses
      /\ \A w \in Workers :
           /\ createPaymentIntent_saveOrder(w) =>
                /\ workers'[w].resp = "200"
                /\ orders'[workers[w].oid].paymentStatus = "processing"
           /\ webhookHandler_save(w) =>
                /\ workers'[w].resp = "200"
                /\ orders'[workers[w].oid].paymentStatus
                     = EventAssign(workers[w].h, workers[w].ev).paymentStatus ]_vars

\* C29. When some order's paymentIntentId is the event's payment intent,
\* the handler resolves the event to that order, whatever metadata.orderId
\* the event carries.
C29_ResolutionPriority ==
  [][ \A w \in Workers :
        ( /\ workers[w].pc \in {"find1", "find2"}
          /\ workers'[w].pc = "save"
          /\ FindByIntent(workers[w].ev.pi) # Null )
        => workers'[w].oid = FindByIntent(workers[w].ev.pi) ]_vars

\* C30. With no signing secret configured, no delivery is answered 400: a
\* payload of a type the handler has a case for goes on to the lookups as
\* the event, signed or not, and the save of the case stores what the case
\* assigns on the order the event resolved to.
C30_LowTrustMode ==
  [][ \A w \in Workers :
        /\ (StartsWebhook(w) /\ ~webhookSecret) =>
             /\ workers'[w].resp # "400"
             /\ \A ev \in AllEvents :
                  (webhookHandler_verify(w, ev, FALSE) /\ ev.type \in Cases(mounted))
                    => (workers'[w].pc = "find1" /\ workers'[w].ev = ev)
        /\ (webhookHandler_save(w) /\ ~webhookSecret) =>
             LET asg == EventAssign(workers[w].h, workers[w].ev)
                 o == workers[w].oid
             IN  /\ workers'[w].resp = "200"
                 /\ orders'[o].paymentStatus = asg.paymentStatus
                 /\ "isPaid" \in DOMAIN asg => orders'[o].isPaid = asg.isPaid
                 /\ "orderStatus" \in DOMAIN asg => orders'[o].orderStatus = asg.orderStatus ]_vars

\* With no signing secret, an order has been marked paid by a payload for
\* which the gateway holds no payment intent.
C30_Witness ==
  /\ ~webhookSecret
  /\ intents = << >>
  /\ \E o \in Orders : orders[o].paymentStatus = "paid" /\ orders[o].isPaid

\* The event of worker record wk is about a payment intent that was created
\* for an existing order which now refers to another payment intent.
Orphaned(wk) ==
  /\ wk.ev.pi \in 1..Len(intents)
  /\ wk.ev.meta = intents[wk.ev.pi].order
  /\ orders[wk.ev.meta].paymentIntentId \notin {Null, wk.ev.pi}

\* C31. A succeeded event for a payment intent that the order no longer
\* refers to, after a second createPaymentIntent on the order, resolves to
\* the order through metadata.orderId, and its save marks the order paid.
C31_OrphanedIntentStillPays ==
  [][ \A w \in Workers :
        ( /\ workers[w].ev.type = "payment_intent.succeeded"
          /\ Orphaned(workers[w]) ) =>
          /\ ( workers[w].pc \in {"find1", "find2"} /\ workers'[w].pc = "done" )
               => workers'[w].resp = "500"
          /\ workers'[w].pc = "save" => workers'[w].oid = workers[w].ev.meta
          /\ ( workers[w].pc = "save" /\ workers'[w].resp = "200" )
               => /\ orders'[workers[w].ev.meta].paymentStatus = "paid"
                  /\ orders'[workers[w].ev.meta].isPaid ]_vars

\* A succeeded event for the first of an order's two payment intents has
\* been acknowledged, and the order, which refers to the second, is paid.
C31_Witness ==
  \E w \in Workers :
    /\ workers[w].pc = "done"
    /\ workers[w].resp = "200"
    /\ workers[w].ev.type = "payment_intent.succeeded"
    /\ Orphaned(workers[w])
    /\ orders[workers[w].ev.meta].paymentStatus = "paid"
    /\ orders[workers[w].ev.meta].isPaid

\* C32. A step of a webhook request changes an order only when it is the
\* save of a case of the handler, and then only the order the event resolved
\* to; an event of a type the handler has no case for changes no order.
C32_FrameOfOneEvent ==
  [][ \A w \in Workers :
        ( /\ workers'[w] # workers[w]
          /\ (workers[w].op = "webhookHandler" \/ workers'[w].op = "webhookHandler") )
        => \A o \in Orders :
             orders'[o] # orders[o] =>
               /\ workers[w].pc = "save"
               /\ workers[w].oid = o
               /\ workers[w].ev.type \in Cases(workers[w].h) ]_vars

\* An event has changed one of two orders that both wait for their payment,
\* and an event of a type without a case has been acknowledged.
C32_Witness ==
  /\ \E o, p \in Orders :
       /\ orders[o].paymentStatus = "paid"
       /\ orders[p].paymentStatus = "processing"
  /\ \E w \in Workers :
       /\ workers[w].pc = "done"
       /\ workers[w].resp = "200"
       /\ workers[w].ev.type \notin Cases(workers[w].h)
       /\ workers[w].ev.type \in EventTypes

\* C33. An order's orderStatus changes only in the save of a succeeded
\* event on that order, and only to 'confirmed': no step of
\* createPaymentIntent or getPaymentStatus and no save of a payment_failed,
\* canceled or charge.refunded event changes it.
C33_FrameOnOrderStatus ==
  [][ \A o \in Orders :
        orders'[o].orderStatus # orders[o].orderStatus =>
          /\ orders'[o].orderStatus = "confirmed"
          /\ \E w \in Workers :
               /\ SavesEvent(w, {"payment_intent.succeeded"})
               /\ workers[w].oid = o ]_vars

\* An order has been confirmed by a succeeded event, and an event saved
\* after it has made its payment 'failed'.
C33_Witness ==
  \E o \in Orders :
    /\ orders[o].orderStatus = "confirmed"
    /\ orders[o].paymentStatus = "failed"
    /\ orders[o].paidAt # Null

\* C34. Every webhook request is answered, and answered with 200, 400 or
\* 500; and when the save of a succeeded event on a 'processing' order is
\* acknowledged, the order's paymentStatus is 'paid'.
C34_Progress ==
  /\ \A w \in Workers :
       (workers[w].op = "webhookHandler" /\ workers[w].pc # "done")
         ~> (workers[w].op = "webhookHandler" /\ workers[w].pc = "done")
  /\ [](\A w \in Workers :
          (workers[w].op = "webhookHandler" /\ workers[w].pc = "done")
            => workers[w].resp \in {"200", "400", "500"})
  /\ [][ \A w \in Workers :
          ( /\ SavesEvent(w, {"payment_intent.succeeded"})
            /\ workers'[w].resp = "200"
            /\ orders[workers[w].oid].paymentStatus = "processing" )
          => orders'[workers[w].oid].paymentStatus = "paid" ]_vars

\* A succeeded event for a 'processing' order has been acknowledged and the
\* order is paid.
C34_Witness ==
  \E w \in Workers :
    /\ workers[w].pc = "done"
    /\ workers[w].op = "webhookHandler"
    /\ workers[w].resp = "200"
    /\ workers[w].ev.type = "payment_intent.succeeded"
    /\ workers[w].ev.meta \in Orders
    /\ orders[workers[w].ev.meta].paymentStatus = "paid"

\* C35. An order with isPaid = true has paidAt set, and the save of a
\* succeeded event on an order that is already paid leaves paidAt as it was.
C35_PaidAtConsistency ==
  [][ /\ \A o \in Orders : orders'[o].isPaid => orders'[o].paidAt # Null
      /\ \A w \in Workers :
           ( /\ SavesEvent(w, {"payment_intent.succeeded"})
             /\ orders[workers[w].oid].isPaid
             /\ orders[workers[w].oid].paymentStatus = "paid" )
           => orders'[workers[w].oid].paidAt = orders[workers[w].oid].paidAt ]_vars

====
